---- MODULE Spec2Model ----
(***************************************************************************)
(* Model of the calculator crate's expression front end:                   *)
(*   - MathExpressionTokenizer (math_expression_tokenizer/mod.rs): owns    *)
(*     the source text and a byte cursor, hands out one token at a time;   *)
(*   - MathExpressionParser::parse (math_expression_parser/mod.rs): pulls  *)
(*     tokens until next_token stops returning Ok, checks the placement of *)
(*     each token against the last accepted one, and finishes with the     *)
(*     trailing-token and brace checks.                                    *)
(* The source text is a sequence of characters; offsets are byte offsets.  *)
(***************************************************************************)
EXTENDS Integers, Sequences, FiniteSets, TLC

VARIABLES
    expr,           \* MathExpressionTokenizer.expr: the source, a sequence of chars
    curr_byte_idx,  \* MathExpressionTokenizer.curr_byte_idx
    expression,     \* parsed_expression.expression: accepted tokens
    braces,         \* parse's local `braces`: offsets of unmatched OpenBrace
    idxs,           \* the idx that next_token returned with each accepted token
    pulled,         \* outcome of the most recent tokenizer.next_token() call
    pulls,          \* number of next_token calls made by parse so far
    pc,             \* "new" (before construction), "parse" (in the loop), "done";
                    \* "scan" when the tokenizer is driven directly by a caller
    result,         \* what new/parse returned once pc = "done"
    hasTok          \* what has_token() returned since the last next_token call

vars == <<expr, curr_byte_idx, expression, braces, idxs, pulled, pulls, pc, result, hasTok>>

\* ---------------------------------------------------------------- bounds
MaxLen == 5
MaxScanLen == 4

\* ------------------------------------------------------------ characters
\* A character is its Unicode scalar value (char as u32); the source is a
\* sequence of characters.
Tab == 9            \* U+0009
Space == 32         \* ' '
LParen == 40        \* '('
RParen == 41        \* ')'
Star == 42          \* '*'
Plus == 43          \* '+'
Minus == 45         \* '-'
Dot == 46           \* '.'
Slash == 47         \* '/'
Zero == 48          \* '0'
One == 49           \* '1'
Nine == 57          \* '9'
LetterA == 97       \* 'a'
NBSP == 160         \* U+00A0 NO-BREAK SPACE: White_Space, two bytes in UTF-8
EAcute == 233       \* U+00E9: a letter, two bytes in UTF-8
OghamSpace == 5760  \* U+1680 OGHAM SPACE MARK: White_Space, three bytes in UTF-8

\* "no character" in a record that carries none
NoChar == -1

Digits == {One}
Operators == {Plus, Minus}
Spaces == {Space}
Chars == Digits \cup Operators \cup Spaces \cup {Dot, LParen, RParen, LetterA}

\* Sources for the tokenizer driven on its own: whitespace of one, two and
\* three bytes, and a two-byte character that starts no token
ScanChars == Digits \cup Operators
             \cup {Dot, LParen, RParen, Tab, NBSP, EAcute, OghamSpace}

\* The characters with the White_Space property: U+0009..U+000D, U+0020,
\* U+0085, U+00A0, U+1680, U+2000..U+200A, U+2028, U+2029, U+202F, U+205F,
\* U+3000
WhiteSpace ==
    (9..13) \cup {32, 133, 160, 5760} \cup (8192..8202)
            \cup {8232, 8233, 8239, 8287, 12288}

\* char::is_whitespace
IsWhitespace(c) == c \in WhiteSpace

\* char::is_digit(10): ASCII decimal digits only
IsDigit10(c) == c \in Zero..Nine

DigitValue(c) == c - Zero

\* char::len_utf8
ByteLen(c) ==
    IF c < 128 THEN 1
    ELSE IF c < 2048 THEN 2
    ELSE IF c < 65536 THEN 3
    ELSE 4

\* All sequences over S of length 0..n
RECURSIVE SeqsUpTo(_, _)
SeqsUpTo(S, n) ==
    IF n = 0 THEN {<<>>}
    ELSE LET shorter == SeqsUpTo(S, n - 1)
         IN  shorter \cup {Append(s, c) : s \in {t \in shorter : Len(t) = n - 1}, c \in S}

\* Byte offset of the 1-based character position i of s (i = Len(s)+1: the end)
RECURSIVE Off(_, _)
Off(s, i) == IF i <= 1 THEN 0 ELSE Off(s, i - 1) + ByteLen(s[i - 1])

\* String::len(): length in bytes
ByteLength(s) == Off(s, Len(s) + 1)

\* The character position whose byte offset is b (b is a char boundary)
PosOf(s, b) == CHOOSE i \in 1..(Len(s) + 1) : Off(s, i) = b

SetMin(S) == CHOOSE x \in S : \A y \in S : x <= y

\* ------------------------------------------------------------- tokens
NoToken == [kind |-> "None", val |-> <<>>]
OpenBrace == [kind |-> "OpenBrace", val |-> <<>>]
CloseBrace == [kind |-> "CloseBrace", val |-> <<>>]
OperatorTok(op) == [kind |-> "Operator", val |-> <<op>>]
DigitTok(v) == [kind |-> "Digit", val |-> v]

\* ------------------------------------------------------------- tokenizer
\* MathExpressionTokenizer::skip_spaces
skip_spaces(s, cur) ==
    LET p == PosOf(s, cur)
        nonws == {i \in p..Len(s) : ~IsWhitespace(s[i])}
    IN  IF nonws = {} THEN ByteLength(s)
        ELSE cur + (Off(s, SetMin(nonws)) - Off(s, p))

\* MathExpressionTokenizer::has_token
has_token(s, cur) == skip_spaces(s, cur) < ByteLength(s)

\* <f64 as FromStr>::from_str restricted to strings over digits and '.':
\* Ok exactly for Digit* ['.' Digit*] with at least one digit.  The value is
\* kept as an exact decimal <<mantissa, scale>> (mantissa / 10^scale) in
\* lowest terms, so "1", "01", "1." and "1.0" denote the same number.
RECURSIVE Mantissa(_)
Mantissa(run) ==
    IF run = <<>> THEN 0
    ELSE LET c == run[Len(run)]
             init == SubSeq(run, 1, Len(run) - 1)
         IN  IF c = Dot THEN Mantissa(init)
             ELSE 10 * Mantissa(init) + DigitValue(c)

Scale(run) ==
    LET dots == {i \in 1..Len(run) : run[i] = Dot}
    IN  IF dots = {} THEN 0 ELSE Len(run) - SetMin(dots)

RECURSIVE Normalize(_, _)
Normalize(m, sc) ==
    IF m = 0 THEN <<0, 0>>
    ELSE IF sc > 0 /\ m % 10 = 0 THEN Normalize(m \div 10, sc - 1)
    ELSE <<m, sc>>

ParseF64(run) ==
    LET ndigits == Cardinality({i \in 1..Len(run) : IsDigit10(run[i])})
        ndots == Cardinality({i \in 1..Len(run) : run[i] = Dot})
    IN  IF ndigits >= 1 /\ ndots <= 1 /\ ndigits + ndots = Len(run)
        THEN [ok |-> TRUE, val |-> Normalize(Mantissa(run), Scale(run))]
        ELSE [ok |-> FALSE, val |-> <<>>]

\* Variants of parse_digits: the run ends at the first '.', or just before a
\* second '.', instead of taking every digit and '.' up to the next other
\* character.
parse_digits_StopAtDot(s, cur) ==
    LET p == PosOf(s, cur)
        stops == {i \in p..Len(s) : ~IsDigit10(s[i])}
        q == IF stops = {} THEN Len(s) + 1 ELSE SetMin(stops)
        offset == Off(s, q) - Off(s, p)
        parsed == ParseF64(SubSeq(s, p, q - 1))
    IN  IF parsed.ok
        THEN [ok |-> TRUE, number |-> parsed.val, idx |-> cur + offset, ch |-> NoChar]
        ELSE [ok |-> FALSE, number |-> <<>>, idx |-> cur, ch |-> s[p]]

parse_digits_LegalPrefix(s, cur) ==
    LET p == PosOf(s, cur)
        stops == {i \in p..Len(s) :
                    \/ ~IsDigit10(s[i]) /\ s[i] # Dot
                    \/ s[i] = Dot /\ \E j \in p..(i - 1) : s[j] = Dot}
        q == IF stops = {} THEN Len(s) + 1 ELSE SetMin(stops)
        offset == Off(s, q) - Off(s, p)
        parsed == ParseF64(SubSeq(s, p, q - 1))
    IN  IF parsed.ok
        THEN [ok |-> TRUE, number |-> parsed.val, idx |-> cur + offset, ch |-> NoChar]
        ELSE [ok |-> FALSE, number |-> <<>>, idx |-> cur, ch |-> s[p]]

\* Variant of parse_digits: the end of the run is returned relative to the
\* start of the run instead of the start of the source.
parse_digits_RelativeIdx(s, cur) ==
    LET p == PosOf(s, cur)
        stops == {i \in p..Len(s) : ~IsDigit10(s[i]) /\ s[i] # Dot}
        q == IF stops = {} THEN Len(s) + 1 ELSE SetMin(stops)
        offset == Off(s, q) - Off(s, p)
        parsed == ParseF64(SubSeq(s, p, q - 1))
    IN  IF parsed.ok
        THEN [ok |-> TRUE, number |-> parsed.val, idx |-> offset, ch |-> NoChar]
        ELSE [ok |-> FALSE, number |-> <<>>, idx |-> cur, ch |-> s[p]]

\* MathExpressionTokenizer::parse_digits
parse_digits(s, cur) ==
    LET p == PosOf(s, cur)
        stops == {i \in p..Len(s) : ~IsDigit10(s[i]) /\ s[i] # Dot}
        q == IF stops = {} THEN Len(s) + 1 ELSE SetMin(stops)
        offset == Off(s, q) - Off(s, p)
        parsed == ParseF64(SubSeq(s, p, q - 1))
    IN  IF parsed.ok
        THEN [ok |-> TRUE, number |-> parsed.val, idx |-> cur + offset, ch |-> NoChar]
        ELSE [ok |-> FALSE, number |-> <<>>, idx |-> cur, ch |-> s[p]]

\* Variant of next_token: the whitespace skip is committed to the cursor
\* before the has_token test, so a NoToken call leaves the cursor at the end.
next_token_CommitSkipFirst(s, cur0) ==
    LET cur == skip_spaces(s, cur0)
    IN  IF ~(cur < ByteLength(s))
        THEN [kind |-> "NoToken", idx |-> -1, tok |-> NoToken, ch |-> NoChar, cur |-> cur]
        ELSE LET c == s[PosOf(s, cur)]
             IN  CASE c = LParen ->
                        [kind |-> "Ok", idx |-> cur, tok |-> OpenBrace, ch |-> NoChar,
                         cur |-> cur + 1]
                   [] c = RParen ->
                        [kind |-> "Ok", idx |-> cur, tok |-> CloseBrace, ch |-> NoChar,
                         cur |-> cur + 1]
                   [] c \in {Plus, Minus, Star, Slash} ->
                        [kind |-> "Ok", idx |-> cur, tok |-> OperatorTok(c), ch |-> NoChar,
                         cur |-> cur + 1]
                   [] OTHER ->
                        LET d == parse_digits(s, cur)
                        IN  IF d.ok
                            THEN [kind |-> "Ok", idx |-> cur, tok |-> DigitTok(d.number),
                                  ch |-> NoChar, cur |-> d.idx]
                            ELSE [kind |-> "InvalidToken", idx |-> d.idx, tok |-> NoToken,
                                  ch |-> d.ch, cur |-> cur]

\* Further variants of next_token: the new cursor returned as the offset of
\* an operator or closing brace; a sign directly before a digit read as part of
\* the number; an unparsable run reported as NoToken; a closing brace that
\* does not advance the cursor.
next_token_ReturnsNewIndex(s, cur0) ==
    IF ~has_token(s, cur0)
    THEN [kind |-> "NoToken", idx |-> -1, tok |-> NoToken, ch |-> NoChar, cur |-> cur0]
    ELSE LET cur == skip_spaces(s, cur0)
             old_value == cur
             c == s[PosOf(s, cur)]
         IN  CASE c = LParen ->
                    [kind |-> "Ok", idx |-> cur, tok |-> OpenBrace, ch |-> NoChar,
                     cur |-> old_value + 1]
               [] c = RParen ->
                    [kind |-> "Ok", idx |-> old_value + 1, tok |-> CloseBrace, ch |-> NoChar,
                     cur |-> old_value + 1]
               [] c \in {Plus, Minus, Star, Slash} ->
                    [kind |-> "Ok", idx |-> old_value + 1, tok |-> OperatorTok(c), ch |-> NoChar,
                     cur |-> old_value + 1]
               [] OTHER ->
                    LET d == parse_digits(s, cur)
                    IN  IF d.ok
                        THEN [kind |-> "Ok", idx |-> cur, tok |-> DigitTok(d.number),
                              ch |-> NoChar, cur |-> d.idx]
                        ELSE [kind |-> "InvalidToken", idx |-> d.idx, tok |-> NoToken,
                              ch |-> d.ch, cur |-> cur]

next_token_SignedNumber(s, cur0) ==
    IF ~has_token(s, cur0)
    THEN [kind |-> "NoToken", idx |-> -1, tok |-> NoToken, ch |-> NoChar, cur |-> cur0]
    ELSE LET cur == skip_spaces(s, cur0)
             old_value == cur
             c == s[PosOf(s, cur)]
         IN  CASE c = LParen ->
                    [kind |-> "Ok", idx |-> cur, tok |-> OpenBrace, ch |-> NoChar,
                     cur |-> old_value + 1]
               [] c = RParen ->
                    [kind |-> "Ok", idx |-> cur, tok |-> CloseBrace, ch |-> NoChar,
                     cur |-> old_value + 1]
               [] /\ c \in {Plus, Minus}
                  /\ PosOf(s, cur) < Len(s)
                  /\ IsDigit10(s[PosOf(s, cur) + 1])
                  /\ parse_digits(s, cur + 1).ok ->
                    [kind |-> "Ok", idx |-> cur,
                     tok |-> DigitTok(parse_digits(s, cur + 1).number), ch |-> NoChar,
                     cur |-> parse_digits(s, cur + 1).idx]
               [] c \in {Plus, Minus, Star, Slash} ->
                    [kind |-> "Ok", idx |-> cur, tok |-> OperatorTok(c), ch |-> NoChar,
                     cur |-> old_value + 1]
               [] OTHER ->
                    LET d == parse_digits(s, cur)
                    IN  IF d.ok
                        THEN [kind |-> "Ok", idx |-> cur, tok |-> DigitTok(d.number),
                              ch |-> NoChar, cur |-> d.idx]
                        ELSE [kind |-> "InvalidToken", idx |-> d.idx, tok |-> NoToken,
                              ch |-> d.ch, cur |-> cur]

next_token_NoTokenOnBadRun(s, cur0) ==
    IF ~has_token(s, cur0)
    THEN [kind |-> "NoToken", idx |-> -1, tok |-> NoToken, ch |-> NoChar, cur |-> cur0]
    ELSE LET cur == skip_spaces(s, cur0)
             old_value == cur
             c == s[PosOf(s, cur)]
         IN  CASE c = LParen ->
                    [kind |-> "Ok", idx |-> cur, tok |-> OpenBrace, ch |-> NoChar,
                     cur |-> old_value + 1]
               [] c = RParen ->
                    [kind |-> "Ok", idx |-> cur, tok |-> CloseBrace, ch |-> NoChar,
                     cur |-> old_value + 1]
               [] c \in {Plus, Minus, Star, Slash} ->
                    [kind |-> "Ok", idx |-> cur, tok |-> OperatorTok(c), ch |-> NoChar,
                     cur |-> old_value + 1]
               [] OTHER ->
                    LET d == parse_digits(s, cur)
                    IN  IF d.ok
                        THEN [kind |-> "Ok", idx |-> cur, tok |-> DigitTok(d.number),
                              ch |-> NoChar, cur |-> d.idx]
                        ELSE [kind |-> "NoToken", idx |-> -1, tok |-> NoToken,
                              ch |-> NoChar, cur |-> cur]

next_token_CloseBraceNoAdvance(s, cur0) ==
    IF ~has_token(s, cur0)
    THEN [kind |-> "NoToken", idx |-> -1, tok |-> NoToken, ch |-> NoChar, cur |-> cur0]
    ELSE LET cur == skip_spaces(s, cur0)
             old_value == cur
             c == s[PosOf(s, cur)]
         IN  CASE c = LParen ->
                    [kind |-> "Ok", idx |-> cur, tok |-> OpenBrace, ch |-> NoChar,
                     cur |-> old_value + 1]
               [] c = RParen ->
                    [kind |-> "Ok", idx |-> cur, tok |-> CloseBrace, ch |-> NoChar,
                     cur |-> old_value]
               [] c \in {Plus, Minus, Star, Slash} ->
                    [kind |-> "Ok", idx |-> cur, tok |-> OperatorTok(c), ch |-> NoChar,
                     cur |-> old_value + 1]
               [] OTHER ->
                    LET d == parse_digits(s, cur)
                    IN  IF d.ok
                        THEN [kind |-> "Ok", idx |-> cur, tok |-> DigitTok(d.number),
                              ch |-> NoChar, cur |-> d.idx]
                        ELSE [kind |-> "InvalidToken", idx |-> d.idx, tok |-> NoToken,
                              ch |-> d.ch, cur |-> cur]

\* Variant of next_token that steps over the first character of a run it
\* could not parse
next_token_SkipsBadChar(s, cur0) ==
    IF ~has_token(s, cur0)
    THEN [kind |-> "NoToken", idx |-> -1, tok |-> NoToken, ch |-> NoChar, cur |-> cur0]
    ELSE LET cur == skip_spaces(s, cur0)
             old_value == cur
             c == s[PosOf(s, cur)]
         IN  CASE c = LParen ->
                    [kind |-> "Ok", idx |-> cur, tok |-> OpenBrace, ch |-> NoChar,
                     cur |-> old_value + 1]
               [] c = RParen ->
                    [kind |-> "Ok", idx |-> cur, tok |-> CloseBrace, ch |-> NoChar,
                     cur |-> old_value + 1]
               [] c \in {Plus, Minus, Star, Slash} ->
                    [kind |-> "Ok", idx |-> cur, tok |-> OperatorTok(c), ch |-> NoChar,
                     cur |-> old_value + 1]
               [] OTHER ->
                    LET d == parse_digits(s, cur)
                    IN  IF d.ok
                        THEN [kind |-> "Ok", idx |-> cur, tok |-> DigitTok(d.number),
                              ch |-> NoChar, cur |-> d.idx]
                        ELSE [kind |-> "InvalidToken", idx |-> d.idx, tok |-> NoToken,
                              ch |-> d.ch, cur |-> cur + ByteLen(c)]

\* MathExpressionTokenizer::next_token: the returned Result together with the
\* cursor the call leaves behind (cur)
next_token(s, cur0) ==
    IF ~has_token(s, cur0)
    THEN [kind |-> "NoToken", idx |-> -1, tok |-> NoToken, ch |-> NoChar, cur |-> cur0]
    ELSE LET cur == skip_spaces(s, cur0)
             old_value == cur
             c == s[PosOf(s, cur)]
         IN  CASE c = LParen ->
                    [kind |-> "Ok", idx |-> cur, tok |-> OpenBrace, ch |-> NoChar,
                     cur |-> old_value + 1]
               [] c = RParen ->
                    [kind |-> "Ok", idx |-> cur, tok |-> CloseBrace, ch |-> NoChar,
                     cur |-> old_value + 1]
               [] c \in {Plus, Minus, Star, Slash} ->
                    [kind |-> "Ok", idx |-> cur, tok |-> OperatorTok(c), ch |-> NoChar,
                     cur |-> old_value + 1]
               [] OTHER ->
                    LET d == parse_digits(s, cur)
                    IN  IF d.ok
                        THEN [kind |-> "Ok", idx |-> cur, tok |-> DigitTok(d.number),
                              ch |-> NoChar, cur |-> d.idx]
                        ELSE [kind |-> "InvalidToken", idx |-> d.idx, tok |-> NoToken,
                              ch |-> d.ch, cur |-> cur]

\* MathExpressionTokenizer::curr_index
curr_index(cur) == cur

\* ------------------------------------------------------------- parser
\* Vec::last as an Option: NoToken stands for None
Last(toks) == IF toks = <<>> THEN NoToken ELSE toks[Len(toks)]

Pop(stack) == SubSeq(stack, 1, Len(stack) - 1)

\* Variants of the match arms, each dropping or loosening one check.
CloseBraceArm_NoEmptyCheck(idx, last, stack) ==
    IF last.kind = "None" THEN [err |-> TRUE, braces |-> Pop(stack)]
    ELSE [err |-> last.kind \notin {"Digit", "CloseBrace"}, braces |-> Pop(stack)]

DigitArm_NoCheck(idx, last, stack) == [err |-> FALSE, braces |-> stack]

OperatorArm_AllowAfterOpenBrace(idx, last, stack) ==
    IF last.kind = "None" THEN [err |-> TRUE, braces |-> stack]
    ELSE [err |-> last.kind \notin {"Digit", "CloseBrace", "OpenBrace"}, braces |-> stack]

\* Variant of the CloseBrace arm that tests the stack but does not pop it
CloseBraceArm_NoPop(idx, last, stack) ==
    IF stack = <<>> THEN [err |-> TRUE, braces |-> stack]
    ELSE IF last.kind = "None" THEN [err |-> TRUE, braces |-> stack]
    ELSE [err |-> last.kind \notin {"Digit", "CloseBrace"}, braces |-> stack]

\* Variant of the OpenBrace arm without the test of the previous token
OpenBraceArm_NoCheck(idx, last, stack) ==
    [err |-> FALSE, braces |-> Append(stack, idx)]

\* The four match arms of parse.  Each yields whether the arm returns
\* Err(InvalidExpression { idx }) and the brace stack it leaves.
OpenBraceArm(idx, last, stack) ==
    [err |-> last.kind # "None" /\ last.kind \notin {"Operator", "OpenBrace"},
     braces |-> Append(stack, idx)]

CloseBraceArm(idx, last, stack) ==
    IF stack = <<>> THEN [err |-> TRUE, braces |-> stack]
    ELSE IF last.kind = "None" THEN [err |-> TRUE, braces |-> Pop(stack)]
    ELSE [err |-> last.kind \notin {"Digit", "CloseBrace"}, braces |-> Pop(stack)]

DigitArm(idx, last, stack) ==
    [err |-> last.kind # "None" /\ last.kind \notin {"Operator", "OpenBrace"},
     braces |-> stack]

OperatorArm(idx, last, stack) ==
    IF last.kind = "None" THEN [err |-> TRUE, braces |-> stack]
    ELSE [err |-> last.kind \notin {"Digit", "CloseBrace"}, braces |-> stack]

MatchToken(idx, tok, last, stack) ==
    CASE tok.kind = "OpenBrace" -> OpenBraceArm(idx, last, stack)
      [] tok.kind = "CloseBrace" -> CloseBraceArm(idx, last, stack)
      [] tok.kind = "Digit" -> DigitArm(idx, last, stack)
      [] tok.kind = "Operator" -> OperatorArm(idx, last, stack)

\* Results of new / parse
NoResult == [kind |-> "None", idx |-> -1, ch |-> NoChar]
OkResult == [kind |-> "Ok", idx |-> -1, ch |-> NoChar]
InvalidArgument == [kind |-> "InvalidArgument", idx |-> -1, ch |-> NoChar]
InvalidExpression(idx) == [kind |-> "InvalidExpression", idx |-> idx, ch |-> NoChar]
InvalidBraceConsequence(idx) == [kind |-> "InvalidBraceConsequence", idx |-> idx, ch |-> NoChar]
TokenizerInvalidToken(idx, ch) == [kind |-> "Tokenizer.InvalidToken", idx |-> idx, ch |-> ch]

\* Variants of the end of parse: no trailing-token check; the outermost
\* instead of the innermost brace reported; an empty expression rejected.
AfterLoop_NoTrailingCheck(toks, stack, cur) ==
    IF stack = <<>> THEN OkResult
    ELSE InvalidBraceConsequence(stack[Len(stack)])

AfterLoop_FirstBrace(toks, stack, cur) ==
    IF Last(toks).kind \in {"Operator", "OpenBrace"}
    THEN InvalidExpression(curr_index(cur))
    ELSE IF stack = <<>> THEN OkResult
    ELSE InvalidBraceConsequence(stack[1])

AfterLoop_RejectEmpty(toks, stack, cur) ==
    IF toks = <<>> \/ Last(toks).kind \in {"Operator", "OpenBrace"}
    THEN InvalidExpression(curr_index(cur))
    ELSE IF stack = <<>> THEN OkResult
    ELSE InvalidBraceConsequence(stack[Len(stack)])

\* The part of parse after the while-let loop
AfterLoop(toks, stack, cur) ==
    IF Last(toks).kind \in {"Operator", "OpenBrace"}
    THEN InvalidExpression(curr_index(cur))
    ELSE IF stack = <<>> THEN OkResult
    ELSE InvalidBraceConsequence(stack[Len(stack)])

\* ------------------------------------------------------------- behaviour
NoPull == [kind |-> "None", idx |-> -1, tok |-> NoToken, ch |-> NoChar, cur |-> 0]

InitOver(alphabet, maxlen) ==
    /\ expr \in SeqsUpTo(alphabet, maxlen)
    /\ curr_byte_idx = 0
    /\ expression = <<>>
    /\ braces = <<>>
    /\ idxs = <<>>
    /\ pulled = NoPull
    /\ pulls = 0
    /\ pc = "new"
    /\ result = NoResult
    /\ hasTok = "none"

Init == InitOver(Chars, MaxLen)

\* Variant of new without the is_empty test
New_AcceptEmpty ==
    /\ pc = "new"
    /\ pc' = "parse"
    /\ curr_byte_idx' = 0
    /\ UNCHANGED <<expr, expression, braces, idxs, pulled, pulls, result, hasTok>>

\* MathExpressionTokenizer::new, followed by the entry into parse
New ==
    /\ pc = "new"
    /\ IF expr = <<>>
       THEN /\ pc' = "done"
            /\ result' = InvalidArgument
       ELSE /\ pc' = "parse"
            /\ result' = result
    /\ curr_byte_idx' = 0
    /\ UNCHANGED <<expr, expression, braces, idxs, pulled, pulls, hasTok>>

\* One evaluation of the while-let head `tokenizer.next_token()` of parse
\* and, when it is Ok, the loop body; when it is an Err, the loop is left
\* and the rest of parse runs.
ParseStep ==
    /\ pc = "parse"
    /\ LET r == next_token(expr, curr_byte_idx)
       IN  /\ pulled' = r
           /\ pulls' = pulls + 1
           /\ curr_byte_idx' = r.cur
           /\ IF r.kind = "Ok"
              THEN LET m == MatchToken(r.idx, r.tok, Last(expression), braces)
                   IN  /\ braces' = m.braces
                       /\ IF m.err
                          THEN /\ result' = InvalidExpression(r.idx)
                               /\ pc' = "done"
                               /\ UNCHANGED <<expression, idxs>>
                          ELSE /\ expression' = Append(expression, r.tok)
                               /\ idxs' = Append(idxs, r.idx)
                               /\ UNCHANGED <<result, pc>>
              ELSE /\ result' = AfterLoop(expression, braces, r.cur)
                   /\ pc' = "done"
                   /\ UNCHANGED <<expression, braces, idxs>>
    /\ UNCHANGED <<expr, hasTok>>

Next == New \/ ParseStep

Spec == Init /\ [][Next]_vars

\* The tokenizer used directly, as the unit tests do: construction, then
\* has_token and next_token calls in any order, also after an Err.
\* `expression` and `idxs` record the tokens and offsets handed out.
ScanInit == InitOver(ScanChars, MaxScanLen)

\* MathExpressionTokenizer::new
ScanNew ==
    /\ pc = "new"
    /\ IF expr = <<>>
       THEN /\ pc' = "done"
            /\ result' = InvalidArgument
       ELSE /\ pc' = "scan"
            /\ result' = result
    /\ curr_byte_idx' = 0
    /\ UNCHANGED <<expr, expression, braces, idxs, pulled, pulls, hasTok>>

\* Variant of a has_token call that commits the whitespace skip
HasTokenCall_CommitsSkip ==
    /\ pc = "scan"
    /\ hasTok' = IF has_token(expr, curr_byte_idx) THEN "yes" ELSE "no"
    /\ curr_byte_idx' = skip_spaces(expr, curr_byte_idx)
    /\ UNCHANGED <<expr, expression, braces, idxs, pulled, pulls, pc, result>>

\* A call of has_token (&self: nothing but the answer changes)
HasTokenCall ==
    /\ pc = "scan"
    /\ hasTok' = IF has_token(expr, curr_byte_idx) THEN "yes" ELSE "no"
    /\ UNCHANGED <<expr, curr_byte_idx, expression, braces, idxs, pulled, pulls, pc, result>>

\* A call of next_token
NextTokenCall ==
    /\ pc = "scan"
    /\ LET r == next_token(expr, curr_byte_idx)
       IN  /\ pulled' = r
           /\ curr_byte_idx' = r.cur
           /\ IF r.kind = "Ok"
              THEN /\ expression' = Append(expression, r.tok)
                   /\ idxs' = Append(idxs, r.idx)
              ELSE UNCHANGED <<expression, idxs>>
    /\ hasTok' = "none"
    /\ UNCHANGED <<expr, braces, pulls, pc, result>>

ScanNext == ScanNew \/ HasTokenCall \/ NextTokenCall

SpecScan == ScanInit /\ [][ScanNext]_vars

TypeOK ==
    /\ expr \in Seq(Chars \cup ScanChars)
    /\ curr_byte_idx \in 0..ByteLength(expr)
    /\ pc \in {"new", "parse", "scan", "done"}
    /\ hasTok \in {"none", "yes", "no"}
    /\ Len(idxs) = Len(expression)

\* ------------------------------------------------------------- properties
Done == pc = "done"

\* parse left its loop because next_token returned an Err (not by an early
\* return from a match arm)
LoopEnded == Done /\ pulled.kind \in {"NoToken", "InvalidToken"}

\* A match arm rejected the token that was just pulled
Rejected == Done /\ pulled.kind = "Ok"

\* Nesting depth after the first n tokens
RECURSIVE Depth(_, _)
Depth(toks, n) ==
    IF n = 0 THEN 0
    ELSE Depth(toks, n - 1)
         + (CASE toks[n].kind = "OpenBrace" -> 1
              [] toks[n].kind = "CloseBrace" -> -1
              [] OTHER -> 0)

\* Positions of the OpenBrace tokens that no later CloseBrace matches
UnmatchedOpens(toks) ==
    {i \in 1..Len(toks) :
        /\ toks[i].kind = "OpenBrace"
        /\ \A j \in i..Len(toks) : Depth(toks, j) >= Depth(toks, i)}

SetMax(S) == CHOOSE x \in S : \A y \in S : x >= y

\* C1: when next_token fails with InvalidToken{idx, ch} during parse, parse
\* returns that tokenizer error, with the same idx and ch, and nothing else.
C1_InvalidTokenPropagated ==
    (Done /\ pulled.kind = "InvalidToken")
        => result = TokenizerInvalidToken(pulled.idx, pulled.ch)

\* C2: every successfully returned token sequence has balanced, properly
\* nested braces; each Operator follows a Digit or CloseBrace and is neither
\* first nor last; each OpenBrace is first or follows an Operator or
\* OpenBrace; each CloseBrace follows a Digit or CloseBrace.
WellPlaced(toks) ==
    /\ \A n \in 0..Len(toks) : Depth(toks, n) >= 0
    /\ Depth(toks, Len(toks)) = 0
    /\ \A i \in 1..Len(toks) :
          CASE toks[i].kind = "Operator" ->
                  /\ i > 1
                  /\ i < Len(toks)
                  /\ toks[i - 1].kind \in {"Digit", "CloseBrace"}
            [] toks[i].kind = "OpenBrace" ->
                  i = 1 \/ toks[i - 1].kind \in {"Operator", "OpenBrace"}
            [] toks[i].kind = "CloseBrace" ->
                  i > 1 /\ toks[i - 1].kind \in {"Digit", "CloseBrace"}
            [] OTHER -> TRUE

C2_ValidatedSequenceWellFormed ==
    (Done /\ result.kind = "Ok") => WellPlaced(expression)

C2_Witness ==
    /\ Done
    /\ result.kind = "Ok"
    /\ Len(expression) = 5
    /\ {expression[i].kind : i \in 1..5} = {"OpenBrace", "Digit", "Operator", "CloseBrace"}

\* C3 (as stated): when the stream ends cleanly and the last accepted token is
\* an Operator or OpenBrace, parse fails with InvalidExpression whose idx is
\* the byte length of the source, trailing whitespace included.
C3_TrailingOffsetIsSourceLength ==
    (Done /\ pulled.kind = "NoToken" /\ Last(expression).kind \in {"Operator", "OpenBrace"})
        => result = InvalidExpression(ByteLength(expr))

\* C3 (amended): when the loop ends and the last accepted token is an Operator
\* or OpenBrace, parse fails with InvalidExpression whose idx is the
\* tokenizer's cursor; after a clean end of the stream that is the byte just
\* past the last accepted token, so trailing whitespace is not counted.
C3_TrailingOffsetIsCursor ==
    (LoopEnded /\ Last(expression).kind \in {"Operator", "OpenBrace"})
        => /\ result = InvalidExpression(curr_byte_idx)
           /\ pulled.kind = "NoToken" => result.idx = idxs[Len(idxs)] + 1

C3_Witness ==
    /\ Done
    /\ pulled.kind = "NoToken"
    /\ Last(expression).kind = "Operator"
    /\ result.kind = "InvalidExpression"
    /\ result.idx < ByteLength(expr)

\* C4: when the whole stream was consumed without a placement violation, the
\* last token is a Digit or CloseBrace and some OpenBrace was never closed,
\* parse fails with InvalidBraceConsequence at the offset of the innermost
\* unmatched OpenBrace.
C4_InnermostUnmatchedBrace ==
    (/\ Done
     /\ pulled.kind = "NoToken"
     /\ Last(expression).kind \in {"Digit", "CloseBrace"}
     /\ UnmatchedOpens(expression) # {})
        => result = InvalidBraceConsequence(idxs[SetMax(UnmatchedOpens(expression))])

C4_Witness ==
    /\ Done
    /\ pulled.kind = "NoToken"
    /\ result.kind = "InvalidBraceConsequence"
    /\ Cardinality(UnmatchedOpens(expression)) >= 2
    /\ result.idx > 0

\* The current step is an iteration of parse's loop whose next_token call
\* returned Ok with a token of the given kind
Pulls(kind) == pc = "parse" /\ pulled'.kind = "Ok" /\ pulled'.tok.kind = kind

\* The loop body accepted the pulled token: it is appended and the loop goes on
Accepts ==
    /\ expression' = Append(expression, pulled'.tok)
    /\ idxs' = Append(idxs, pulled'.idx)
    /\ pc' = "parse"

\* The loop body returned Err(InvalidExpression) at the pulled token's offset
Rejects ==
    /\ pc' = "done"
    /\ result' = InvalidExpression(pulled'.idx)
    /\ expression' = expression
    /\ pulls' = Len(expression) + 1

\* C5: an Operator token is accepted only after a Digit or CloseBrace; when it
\* is first or follows an Operator or OpenBrace, parse fails with
\* InvalidExpression at the offset of that operator (so no unary minus).
C5_OperatorPlacement ==
    [][Pulls("Operator") =>
          /\ expr[PosOf(expr, pulled'.idx)] = pulled'.tok.val[1]
          /\ IF Last(expression).kind \in {"Digit", "CloseBrace"}
             THEN Accepts ELSE Rejects]_vars

C5_Witness ==
    /\ Rejected
    /\ pulled.tok = OperatorTok(Minus)
    /\ Last(expression).kind = "OpenBrace"
    /\ result = InvalidExpression(1)

\* C6: a Digit or OpenBrace token is accepted only when it is first or follows
\* an Operator or OpenBrace; after a Digit or CloseBrace parse fails at once
\* with InvalidExpression at the offending token's offset, and nothing more
\* is pulled afterwards.
C6_OperandPlacement ==
    [][/\ (Pulls("Digit") \/ Pulls("OpenBrace")) =>
            IF Last(expression).kind \in {"None", "Operator", "OpenBrace"}
            THEN Accepts ELSE Rejects
       /\ Done => pulls' = pulls]_vars

C6_Witness ==
    /\ Rejected
    /\ pulled.tok.kind = "Digit"
    /\ Last(expression).kind = "Digit"
    /\ result = InvalidExpression(2)

\* C7: a CloseBrace is accepted only when the brace stack is non-empty and the
\* previous token is a Digit or CloseBrace, and then exactly one offset is
\* popped; otherwise parse fails with InvalidExpression at its offset.
C7_CloseBracePlacement ==
    [][Pulls("CloseBrace") =>
          IF braces # <<>> /\ Last(expression).kind \in {"Digit", "CloseBrace"}
          THEN /\ Accepts
               /\ Len(braces') = Len(braces) - 1
               /\ braces' = SubSeq(braces, 1, Len(braces) - 1)
          ELSE Rejects]_vars

C7_Witness ==
    /\ pc = "parse"
    /\ pulled.kind = "Ok"
    /\ Len(expression) >= 3
    /\ Last(expression).kind = "CloseBrace"
    /\ braces = <<>>

\* C8: for a non-empty source of whitespace only, the tokenizer yields no
\* token and parse returns Ok with an empty token sequence.
OnlyWhitespace(s) == s # <<>> /\ \A i \in 1..Len(s) : IsWhitespace(s[i])

C8_WhitespaceOnlyIsEmptySuccess ==
    (pc # "new" /\ OnlyWhitespace(expr))
        => /\ Len(expression) = 0
           /\ pulled.kind \in {"None", "NoToken"}
           /\ Done => (result = OkResult /\ pulls = 1)
           /\ result.kind \in {"None", "Ok"}

C8_Witness ==
    /\ Done
    /\ OnlyWhitespace(expr)
    /\ Len(expr) >= 2
    /\ result.kind = "Ok"
    /\ expression = <<>>

\* First position at or after p holding a non-whitespace character (Len+1 if none)
RECURSIVE FirstNonWs(_, _)
FirstNonWs(s, p) ==
    IF p > Len(s) THEN Len(s) + 1
    ELSE IF IsWhitespace(s[p]) THEN FirstNonWs(s, p + 1) ELSE p

\* First position at or after p holding neither an ASCII digit nor '.'
RECURSIVE RunEnd(_, _)
RunEnd(s, p) ==
    IF p > Len(s) THEN Len(s) + 1
    ELSE IF s[p] \in ((Zero..Nine) \cup {Dot})
         THEN RunEnd(s, p + 1) ELSE p

CountOf(s, S) == Cardinality({i \in 1..Len(s) : s[i] \in S})

AsciiDigits == (Zero..Nine)

\* C9: when the next non-whitespace character is no brace and no operator,
\* next_token takes the maximal run of ASCII digits and '.' starting there;
\* if the run is empty, has no digit or has more than one '.', the call fails
\* with InvalidToken whose idx is the byte offset where the run began and
\* whose ch is the character at that offset; otherwise it yields a Digit
\* token for the whole run.
C9_DigitRunOrInvalidToken ==
    [][pc = "parse" =>
          LET start == FirstNonWs(expr, PosOf(expr, curr_byte_idx))
          IN  (start <= Len(expr) /\ expr[start] \notin {LParen, RParen, Plus, Minus, Star, Slash}) =>
                LET end == RunEnd(expr, start)
                    run == SubSeq(expr, start, end - 1)
                IN  IF run = <<>> \/ CountOf(run, AsciiDigits) = 0 \/ CountOf(run, {Dot}) > 1
                    THEN /\ pulled'.kind = "InvalidToken"
                         /\ pulled'.idx = Off(expr, start)
                         /\ pulled'.ch = expr[start]
                    ELSE /\ pulled'.kind = "Ok"
                         /\ pulled'.tok.kind = "Digit"
                         /\ pulled'.idx = Off(expr, start)
                         /\ curr_byte_idx' = Off(expr, end)]_vars

C9_Witness ==
    /\ pulled.kind = "InvalidToken"
    /\ pulled.idx = 0
    /\ pulled.ch = One
    /\ CountOf(expr, {Dot}) = 2
    /\ CountOf(expr, AsciiDigits) = 3

\* Value of a digits-and-dot string, read left to right: <<all digits as an
\* integer, number of digits after the dot>>
RECURSIVE ReadDecimal(_, _, _, _)
ReadDecimal(s, i, acc, frac) ==
    IF i > Len(s) THEN <<acc, frac>>
    ELSE IF s[i] = Dot THEN ReadDecimal(s, i + 1, acc, 0)
    ELSE ReadDecimal(s, i + 1, 10 * acc + DigitValue(s[i]),
                     IF \E j \in 1..(i - 1) : s[j] = Dot THEN frac + 1 ELSE frac)

RECURSIVE Pow10(_)
Pow10(n) == IF n = 0 THEN 1 ELSE 10 * Pow10(n - 1)

DigitsAndAtMostOneDot(s) ==
    /\ s # <<>>
    /\ \A i \in 1..Len(s) : s[i] \in AsciiDigits \cup {Dot}
    /\ CountOf(s, {Dot}) <= 1

WholeSourceIsOneNumber ==
    /\ pulled.kind = "Ok"
    /\ pulled.tok.kind = "Digit"
    /\ pulled.idx = 0
    /\ LET v == ReadDecimal(expr, 1, 0, 0)
       IN  pulled.tok.val[1] * Pow10(v[2]) = v[1] * Pow10(pulled.tok.val[2])
    /\ curr_byte_idx = ByteLength(expr)
    /\ ~has_token(expr, curr_byte_idx)

\* C10 (as stated): for every non-empty source of ASCII digits and at most one
\* '.', the first next_token call returns one Digit token at offset 0 for the
\* whole source, and the tokenizer is exhausted afterwards.
C10_DigitsAndDotScanToOneNumber ==
    (pulls = 1 /\ DigitsAndAtMostOneDot(expr)) => WholeSourceIsOneNumber

\* C10 (amended): the same for every source of ASCII digits and at most one
\* '.' that contains at least one digit.
C10_NumeralScansToOneNumber ==
    (pulls = 1 /\ DigitsAndAtMostOneDot(expr) /\ CountOf(expr, AsciiDigits) >= 1)
        => WholeSourceIsOneNumber

C10_Witness ==
    /\ pulls = 1
    /\ DigitsAndAtMostOneDot(expr)
    /\ CountOf(expr, {Dot}) = 1
    /\ CountOf(expr, AsciiDigits) >= 3
    /\ expr[1] # Dot /\ expr[Len(expr)] # Dot
    /\ pulled.kind = "Ok"
    /\ curr_byte_idx = ByteLength(expr)

\* --------------------------------------------- properties of the tokenizer
\* Positions of the non-whitespace characters of s, in source order
NonWsPositions(s) ==
    LET Keep(i) == ~IsWhitespace(s[i])
    IN  SelectSeq([i \in 1..Len(s) |-> i], Keep)

\* The token a single brace or operator character stands for
TokenOf(c) ==
    CASE c = LParen -> OpenBrace
      [] c = RParen -> CloseBrace
      [] OTHER -> OperatorTok(c)

IsBoundary(s, b) == \E i \in 1..(Len(s) + 1) : Off(s, i) = b

\* The character that starts at byte offset b (NoChar if b is no such offset)
CharAt(s, b) ==
    IF \E i \in 1..Len(s) : Off(s, i) = b THEN s[PosOf(s, b)] ELSE NoChar

OnlyOver(s, S) == \A i \in 1..Len(s) : s[i] \in S \/ IsWhitespace(s[i])

\* C11: for a source of operator characters, braces and whitespace with no
\* leading whitespace, repeated next_token calls hand out exactly one token
\* per non-whitespace character, in order, each at the byte offset of its
\* character and of the matching kind; after the last one has_token is false.
C11_OneTokenPerOperatorOrBrace ==
    (/\ pc = "scan"
     /\ OnlyOver(expr, {Plus, Minus, Star, Slash, LParen, RParen})
     /\ ~IsWhitespace(expr[1]))
        => LET nw == NonWsPositions(expr)
           IN  /\ Len(expression) <= Len(nw)
               /\ \A i \in 1..Len(expression) :
                     /\ idxs[i] = Off(expr, nw[i])
                     /\ expression[i] = TokenOf(expr[nw[i]])
               /\ pulled.kind # "InvalidToken"
               /\ pulled.kind = "NoToken" => Len(expression) = Len(nw)
               /\ Len(expression) = Len(nw) =>
                     /\ ~has_token(expr, curr_byte_idx)
                     /\ hasTok # "yes"

C11_Witness ==
    /\ pc = "scan"
    /\ pulled.kind = "NoToken"
    /\ hasTok = "no"
    /\ Len(expression) = 3
    /\ {expression[i].kind : i \in 1..3} = {"Operator", "OpenBrace", "CloseBrace"}
    /\ \E i \in 1..Len(expr) : IsWhitespace(expr[i])

\* C12: for a source over digits, operators, braces and whitespace, every
\* (offset, token) handed out points at the character that produced it: '('
\* for OpenBrace, ')' for CloseBrace, c for Operator(c) (also directly before
\* a digit), a digit for Digit; the scan never yields InvalidToken and ends
\* with NoToken and has_token false.
C12_OffsetPointsAtProducingChar ==
    (pc = "scan" /\ OnlyOver(expr, AsciiDigits \cup {Plus, Minus, Star, Slash, LParen, RParen}))
        => /\ \A i \in 1..Len(expression) :
                 LET c == CharAt(expr, idxs[i])
                 IN  CASE expression[i].kind = "OpenBrace" -> c = LParen
                       [] expression[i].kind = "CloseBrace" -> c = RParen
                       [] expression[i].kind = "Operator" -> <<c>> = expression[i].val
                       [] expression[i].kind = "Digit" -> c \in AsciiDigits
           /\ pulled.kind # "InvalidToken"
           /\ Len(expression) <= Len(NonWsPositions(expr))
           /\ pulled.kind = "NoToken" =>
                 /\ ~has_token(expr, curr_byte_idx)
                 /\ hasTok # "yes"
                 /\ \A i \in PosOf(expr, curr_byte_idx)..Len(expr) : IsWhitespace(expr[i])

C12_Witness ==
    /\ pc = "scan"
    /\ pulled.kind = "NoToken"
    /\ Len(expression) = 2
    /\ expression[1] = OperatorTok(Minus)
    /\ expression[2].kind = "Digit"
    /\ idxs = <<0, 1>>

\* The current step is a has_token call / a next_token call on the tokenizer
HasTokenStep == pc = "scan" /\ hasTok' # "none"
NextTokenStep == pc = "scan" /\ pc' = "scan" /\ hasTok' = "none"

\* C13 (as stated): has_token never changes the cursor, and a next_token call
\* that fails, with NoToken or with InvalidToken, leaves the cursor exactly
\* where it was before the call.
C13_FailedCallKeepsCursor ==
    [][/\ HasTokenStep => curr_byte_idx' = curr_byte_idx
       /\ (NextTokenStep /\ pulled'.kind \in {"NoToken", "InvalidToken"})
             => curr_byte_idx' = curr_byte_idx]_vars

\* C13 (amended): has_token never changes the cursor or the tokens to come,
\* and repeated calls give the same answer; a next_token call that fails with
\* NoToken leaves the cursor where it was; one that fails with InvalidToken
\* leaves it at the start of the offending run, so only the whitespace skip
\* is committed.
C13_CursorMovesOnlyInNextToken ==
    [][/\ HasTokenStep =>
             /\ curr_byte_idx' = curr_byte_idx
             /\ <<expr, expression, idxs, pulled>>' = <<expr, expression, idxs, pulled>>
             /\ hasTok # "none" => hasTok' = hasTok
       /\ (NextTokenStep /\ pulled'.kind = "NoToken")
             => curr_byte_idx' = curr_byte_idx
       /\ (NextTokenStep /\ pulled'.kind = "InvalidToken")
             => /\ curr_byte_idx' = Off(expr, FirstNonWs(expr, PosOf(expr, curr_byte_idx)))
                /\ curr_byte_idx' = pulled'.idx
                /\ expression' = expression]_vars

C13_Witness ==
    /\ pc = "scan"
    /\ pulled.kind = "InvalidToken"
    /\ expression = <<>>
    /\ curr_byte_idx > 0
    /\ hasTok = "yes"

\* C14: next_token fails with NoToken exactly when has_token is false, that
\* is exactly when every character from the cursor on is whitespace; when
\* has_token is true it returns a token or InvalidToken.
C14_NoTokenIffNoHasToken ==
    [][/\ HasTokenStep =>
             (hasTok' = "no" <=>
                \A i \in PosOf(expr, curr_byte_idx)..Len(expr) : IsWhitespace(expr[i]))
       /\ NextTokenStep =>
             /\ pulled'.kind = "NoToken" <=>
                   \A i \in PosOf(expr, curr_byte_idx)..Len(expr) : IsWhitespace(expr[i])
             /\ pulled'.kind = "NoToken" <=> ~has_token(expr, curr_byte_idx)
             /\ hasTok = "yes" => pulled'.kind \in {"Ok", "InvalidToken"}
             /\ hasTok = "no" => pulled'.kind = "NoToken"]_vars

C14_Witness ==
    /\ pc = "scan"
    /\ pulled.kind = "NoToken"
    /\ Len(expression) >= 1
    /\ curr_byte_idx < ByteLength(expr)
    /\ hasTok = "no"

\* C15: across any sequence of has_token and next_token calls the cursor
\* never decreases, stays within 0..byte length of the source and is always
\* on a character boundary, also with multi-byte whitespace and other
\* multi-byte characters in the source.
C15_CursorMonotoneInBoundsOnBoundary ==
    [][/\ curr_byte_idx' >= curr_byte_idx
       /\ curr_byte_idx' >= 0
       /\ curr_byte_idx' <= ByteLength(expr')
       /\ IsBoundary(expr', curr_byte_idx')]_vars

C15_Witness ==
    /\ pc = "scan"
    /\ expr[1] = NBSP
    /\ EAcute \in {expr[i] : i \in 1..Len(expr)}
    /\ pulled.kind = "InvalidToken"
    /\ Len(expression) >= 1
    /\ curr_byte_idx >= 3
    /\ curr_byte_idx < ByteLength(expr)

\* C16: constructing the tokenizer from the empty string fails with
\* InvalidArgument and gives no tokenizer; from any other string it succeeds
\* with the cursor at 0; parse never runs on an empty source.
C16_EmptySourceRejectedAtConstruction ==
    [][/\ pc = "new" =>
             IF expr = <<>>
             THEN pc' = "done" /\ result' = InvalidArgument /\ pulls' = 0
             ELSE pc' = "parse" /\ result' = NoResult /\ curr_byte_idx' = 0
       /\ pulls' > 0 => expr # <<>>]_vars

C16_Witness ==
    /\ Done
    /\ expr = <<>>
    /\ result = InvalidArgument
    /\ pulls = 0

\* ------------------------------------------ further properties of parse
\* C17: the end checks run trailing-token check first, brace check second: a
\* stream ending in an Operator or OpenBrace with unmatched braces gives
\* InvalidExpression; InvalidBraceConsequence is returned only after every
\* token was consumed and accepted, never while tokens remain.
C17_TrailingCheckBeforeBraceCheck ==
    /\ (LoopEnded /\ Last(expression).kind \in {"Operator", "OpenBrace"} /\ braces # <<>>)
          => result.kind = "InvalidExpression"
    /\ result.kind = "InvalidBraceConsequence"
          => /\ pulled.kind = "NoToken"
             /\ ~has_token(expr, curr_byte_idx)

CountKind(toks, kind) == Cardinality({i \in 1..Len(toks) : toks[i].kind = kind})

\* C18: after each accepted token the brace stack holds exactly the offsets
\* of the OpenBrace tokens of the output not yet matched by a CloseBrace, in
\* strictly increasing order; its length is the number of OpenBrace minus the
\* number of CloseBrace tokens, never negative; on success it is empty.
C18_BraceStackTracksUnmatched ==
    /\ (pc = "parse" \/ LoopEnded) =>
          LET um == UnmatchedOpens(expression)
          IN  /\ Len(braces) = Cardinality(um)
              /\ {braces[i] : i \in 1..Len(braces)} = {idxs[j] : j \in um}
              /\ \A i \in 1..(Len(braces) - 1) : braces[i] < braces[i + 1]
              /\ Len(braces) = CountKind(expression, "OpenBrace")
                                 - CountKind(expression, "CloseBrace")
              /\ \A n \in 0..Len(expression) :
                    CountKind(SubSeq(expression, 1, n), "OpenBrace")
                        >= CountKind(SubSeq(expression, 1, n), "CloseBrace")
    /\ (Done /\ result.kind = "Ok") => braces = <<>>

C18_Witness ==
    /\ pc = "parse"
    /\ CountKind(expression, "CloseBrace") >= 1
    /\ Len(braces) >= 1
    /\ braces[1] > 0

\* Number of next_token calls of parse that returned a token
SuccessfulPulls == IF pulled.kind \in {"NoToken", "InvalidToken"} THEN pulls - 1 ELSE pulls

\* C19: parse terminates on every source: each next_token call that returns
\* a token strictly increases the cursor, so at most (byte length of the
\* source) pulls succeed; every iteration of the loop either ends parse with
\* a result or an error or moves the cursor forward, so parse ends after at
\* most (byte length + 1) pulls.
C19_ParseTerminates ==
    [][/\ (pulls' = pulls + 1 /\ pulled'.kind = "Ok")
           => curr_byte_idx' > curr_byte_idx
       /\ pc = "parse" => pulls' = pulls + 1
       /\ SuccessfulPulls' <= ByteLength(expr')
       /\ SuccessfulPulls' <= curr_byte_idx'
       /\ pulls' <= ByteLength(expr') + 1
       /\ pc = "parse" => (pc' = "done" \/ curr_byte_idx' > curr_byte_idx)
       /\ Done' <=> result'.kind # "None"]_vars

C19_Witness ==
    /\ Done
    /\ Len(expr) >= 4
    /\ SuccessfulPulls = ByteLength(expr)
    /\ pulls = ByteLength(expr) + 1

\* C20: whenever parse returns Ok the tokenizer is exhausted and every
\* non-whitespace character of the source belongs to exactly one returned
\* token; success never follows from a prefix of the source.
C20_SuccessCoversWholeSource ==
    (Done /\ result.kind = "Ok")
        => /\ ~has_token(expr, curr_byte_idx)
           /\ \A p \in 1..Len(expr) :
                 ~IsWhitespace(expr[p]) =>
                    Cardinality({i \in 1..Len(idxs) :
                        /\ idxs[i] <= Off(expr, p)
                        /\ Off(expr, p) < (IF i < Len(idxs) THEN idxs[i + 1]
                                           ELSE curr_byte_idx)}) = 1

\* ------------------------------------------------ parse and the grammar
\* The tokens next_token hands out from byte offset cur to the end of the
\* source; ok is FALSE when one of the calls returns InvalidToken
RECURSIVE TokenStream(_, _)
TokenStream(s, cur) ==
    LET r == next_token(s, cur)
    IN  CASE r.kind = "NoToken" -> [ok |-> TRUE, toks |-> <<>>]
          [] r.kind = "InvalidToken" -> [ok |-> FALSE, toks |-> <<>>]
          [] OTHER ->
               LET rest == TokenStream(s, r.cur)
               IN  [ok |-> rest.ok, toks |-> <<r.tok>> \o rest.toks]

\* toks[i..j] is a sentence of E ::= Number | '(' E ')' | E Operator E
RECURSIVE IsE(_, _, _)
IsE(toks, i, j) ==
    /\ i <= j
    /\ \/ i = j /\ toks[i].kind = "Digit"
       \/ /\ i < j
          /\ toks[i].kind = "OpenBrace"
          /\ toks[j].kind = "CloseBrace"
          /\ IsE(toks, i + 1, j - 1)
       \/ \E k \in (i + 1)..(j - 1) :
             /\ toks[k].kind = "Operator"
             /\ IsE(toks, i, k - 1)
             /\ IsE(toks, k + 1, j)

\* C21: for every token stream the tokenizer delivers without error, parse
\* returns Ok exactly when the stream is empty or a sentence of the infix
\* grammar E ::= Number | '(' E ')' | E Operator E, and then returns the
\* stream unchanged; every other stream is rejected with an error.
C21_AcceptsExactlyTheGrammar ==
    (Done /\ expr # <<>> /\ TokenStream(expr, 0).ok)
        => LET stream == TokenStream(expr, 0).toks
           IN  IF stream = <<>> \/ IsE(stream, 1, Len(stream))
               THEN result = OkResult /\ expression = stream
               ELSE result.kind \in {"InvalidExpression", "InvalidBraceConsequence"}

C21_Witness ==
    /\ Done
    /\ result.kind = "Ok"
    /\ Len(expression) = 5
    /\ expression[1].kind = "OpenBrace"
    /\ expression[3].kind = "CloseBrace"
    /\ expression[4].kind = "Operator"

\* C22: a next_token call that fails with InvalidToken does not consume the
\* offending run: the cursor rests at the start of that run, has_token stays
\* true, and every later next_token call returns the same InvalidToken with
\* the same offset and character.
C22_InvalidTokenIsSticky ==
    [][/\ (pc' = "scan" /\ pulled'.kind = "InvalidToken") =>
             /\ curr_byte_idx' = pulled'.idx
             /\ CharAt(expr', curr_byte_idx') = pulled'.ch
             /\ ~IsWhitespace(pulled'.ch)
             /\ has_token(expr', curr_byte_idx')
             /\ hasTok' # "no"
       /\ (pc = "scan" /\ pulled.kind = "InvalidToken") =>
             /\ pulled' = pulled
             /\ curr_byte_idx' = curr_byte_idx
             /\ expression' = expression]_vars

C22_Witness ==
    /\ pc = "scan"
    /\ pulled.kind = "InvalidToken"
    /\ pulled.ch = Dot
    /\ pulled.idx >= 2
    /\ Len(expression) >= 1
    /\ hasTok = "yes"
====
